---- MODULE Spec2Model ----
(***************************************************************************)
(* Smart-parking controller (ESP32 sketch esp_aws_new.ino + the AWS/MQTT   *)
(* helpers of utils).  One thread of control runs setup() once and then    *)
(* loop() for ever; the broker session can drop at any moment.             *)
(*                                                                         *)
(* pc is the position of that thread.  Every statement group of loop()     *)
(* that reads or writes something the environment can change in between    *)
(* (the session) is its own step.                                          *)
(***************************************************************************)
EXTENDS Integers, Sequences, FiniteSets, TLC

\* ---------------------------------------------------------------- bounds
\* Total number of slot occupancy changes the sensors are allowed to cause.
MaxEvents == 2
\* The retry counter saturates here (the code's loops themselves are unbounded).
MaxAttempts == 1

\* ------------------------------------------------------------- constants
\* Pin levels.  The IR sensors are active-low: LOW means "object present".
LOW == "LOW"
HIGH == "HIGH"
\* Servo angles written by the sketch.
ServoClosed == 0
ServoOpen == 90

Level == {LOW, HIGH}
SlotIds == {"slot1", "slot2"}
\* Before the first cycle no reading has been taken.
NoReading == [entry |-> "none", exit |-> "none", slot1 |-> "none", slot2 |-> "none"]
NoWrites == [entry |-> <<>>, exit |-> <<>>]

VARIABLES
  pc,             \* position of the single thread of control
  ret,            \* who called connectAWS: "setup", "loop" or "none"
  entryGateOpen, exitGateOpen, slot1Occupied, slot2Occupied,
  attached,       \* the servos were attach()ed (setup ran to its end)
  servoEntry, servoExit,      \* last position each servo was driven to
  ledSlot1, ledSlot2,         \* last level written to each LED pin
  ir,             \* the four readings taken by this cycle's digitalRead calls
  prevIR,         \* the readings of the cycle before
  servoCmd,       \* per gate: the write() calls issued by this cycle's gate step
  connected,      \* mqttClient.connected()
  subscribed,     \* the broker holds the command-topic subscription
  trustInstalled, \* net.setCACert/setCertificate/setPrivateKey were called
  associated,     \* WiFi.status() was seen WL_CONNECTED since the last WiFi.begin
  attempts,       \* failed tries of the retry loop in progress (saturating)
  events,         \* per slot: calls of publishSlotStatus
  changes,        \* per slot: changes of the occupied flag
  sent,           \* per slot: calls of mqttClient.publish
  dropped,        \* per slot: events not handed to mqttClient.publish
  lastPublish,    \* session state seen by the most recent mqttClient.publish
  event,          \* the event of the publishSlotStatus call just made, if any
  buffer,         \* that call's serialised payload (char buffer[512])
  decoded,        \* what a reader of the status topic decoded from a payload
  slotSensed,     \* a slot sensor has read LOW in some cycle so far
  rx              \* what messageHandler did with the message of this poll

vars == <<pc, ret, entryGateOpen, exitGateOpen, slot1Occupied, slot2Occupied,
          attached, servoEntry, servoExit, ledSlot1, ledSlot2, ir, prevIR, servoCmd,
          connected, subscribed, trustInstalled, associated, attempts,
          events, changes, sent, dropped, lastPublish, event, buffer, decoded,
          slotSensed, rx>>

gateVars == <<entryGateOpen, exitGateOpen, attached, servoEntry, servoExit, servoCmd>>
slotVars == <<slot1Occupied, slot2Occupied, ledSlot1, ledSlot2>>
telemetryVars == <<events, changes, sent, dropped, lastPublish, event, buffer, decoded>>
sessionVars == <<connected, subscribed, trustInstalled, associated>>
sensorVars == <<ir, prevIR, slotSensed>>

ConnectPCs == {"wifi_begin", "wifi_wait", "certs", "mqtt_loop", "mqtt_connect", "subscribe"}

\* ------------------------------------------------ inbound JSON (tokens)
\* A payload is the sequence of JSON tokens of its bytes (white space dropped).
Tok(t, v) == [t |-> t, v |-> v]
LBrace == Tok("punct", "{")
RBrace == Tok("punct", "}")
Colon == Tok("punct", ":")
Comma == Tok("punct", ",")
Str(s) == Tok("str", s)
Num(n) == Tok("num", n)

\* The payloads the broker may deliver on the command topic.
P_unlock == <<LBrace, Str("message"), Colon, Str("unlock"), RBrace>>
P_foo == <<LBrace, Str("foo"), Colon, Num("1"), RBrace>>
P_fooThenMessage == <<LBrace, Str("foo"), Colon, Num("1"), Comma,
                      Str("message"), Colon, Str("lock"), RBrace>>
P_numberMessage == <<LBrace, Str("message"), Colon, Num("1"), RBrace>>
P_emptyObject == <<LBrace, RBrace>>
P_bareString == <<Str("unlock")>>
P_truncated == <<LBrace, Str("message"), Colon, Str("unlock")>>
P_noColon == <<LBrace, Str("message"), Str("unlock"), RBrace>>
P_garbage == <<RBrace, Colon>>
P_empty == <<>>
Payloads == {P_unlock, P_foo, P_fooThenMessage, P_numberMessage, P_emptyObject,
             P_bareString, P_truncated, P_noColon, P_garbage, P_empty}

\* A parsed value: a string, a number or an object with its members in order.
Value(kind, s, members) == [kind |-> kind, s |-> s, members |-> members]
NullValue == Value("null", "", <<>>)
Parsed(err, val, next) == [err |-> err, val |-> val, next |-> next]
Failed(err) == Parsed(err, NullValue, 0)

\* ArduinoJson adds a member, or overwrites the member that has the key already.
SetMember(members, key, val) ==
  LET m == [key |-> key, kind |-> val.kind, s |-> val.s] IN
  IF \E k \in 1..Len(members) : members[k].key = key
    THEN [k \in 1..Len(members) |-> IF members[k].key = key THEN m ELSE members[k]]
    ELSE Append(members, m)

RECURSIVE ParseValue(_, _), ParseMembers(_, _, _)
\* The value that starts at token i.
ParseValue(toks, i) ==
  IF i > Len(toks) THEN Failed("IncompleteInput")
  ELSE IF toks[i].t = "str" THEN Parsed("Ok", Value("str", toks[i].v, <<>>), i + 1)
  ELSE IF toks[i].t = "num" THEN Parsed("Ok", Value("num", toks[i].v, <<>>), i + 1)
  ELSE IF toks[i] = LBrace THEN
    IF i + 1 > Len(toks) THEN Failed("IncompleteInput")
    ELSE IF toks[i + 1] = RBrace THEN Parsed("Ok", Value("obj", "", <<>>), i + 2)
    ELSE ParseMembers(toks, i + 1, <<>>)
  ELSE Failed("InvalidInput")

\* The members of an object from the key at token i, up to the closing brace.
ParseMembers(toks, i, acc) ==
  IF i > Len(toks) THEN Failed("IncompleteInput")
  ELSE IF toks[i].t = "punct" THEN Failed("InvalidInput")
  ELSE IF i + 1 > Len(toks) THEN Failed("IncompleteInput")
  ELSE IF toks[i + 1] # Colon THEN Failed("InvalidInput")
  ELSE LET v == ParseValue(toks, i + 2) IN
    IF v.err # "Ok" THEN v
    ELSE LET acc2 == SetMember(acc, toks[i].v, v.val) IN
      IF v.next > Len(toks) THEN Failed("IncompleteInput")
      ELSE IF toks[v.next] = RBrace THEN Parsed("Ok", Value("obj", "", acc2), v.next + 1)
      ELSE IF toks[v.next] = Comma THEN ParseMembers(toks, v.next + 1, acc2)
      ELSE Failed("InvalidInput")

\* deserializeJson(doc, message): parses the first value, ignores what follows it.
deserializeJson(input) ==
  IF Len(input) = 0 THEN Failed("EmptyInput") ELSE ParseValue(input, 1)

\* doc[key] converted to const char*: the string, or a null pointer when doc is
\* no object, has no such member, or the member is no string.
NullPtr == [isNull |-> TRUE, s |-> ""]
CharPtr(s) == [isNull |-> FALSE, s |-> s]
MemberAsCharPtr(val, key) ==
  IF val.kind = "obj" /\ \E k \in 1..Len(val.members) :
       val.members[k].key = key /\ val.members[k].kind = "str"
    THEN LET k == CHOOSE k \in 1..Len(val.members) : val.members[k].key = key
         IN CharPtr(val.members[k].s)
    ELSE NullPtr

NoRx == [got |-> FALSE, payload |-> <<>>, dispatched |-> FALSE, cmd |-> NullPtr]

\* messageHandler: copies the payload, parses it and, when the parser reports
\* no error, takes doc["message"] and reaches the command branch with it.
messageHandler(payload) ==
  LET message == payload
      doc == deserializeJson(message)
  IN IF doc.err = "Ok"
       THEN [got |-> TRUE, payload |-> payload, dispatched |-> TRUE,
             cmd |-> MemberAsCharPtr(doc.val, "message")]
       ELSE [got |-> TRUE, payload |-> payload, dispatched |-> FALSE, cmd |-> NullPtr]

\* ------------------------------------------------------------ telemetry
Bump(f, k) == [f EXCEPT ![k] = @ + 1]
Total(f) == f["slot1"] + f["slot2"]

\* ------------------------------------------------- outbound JSON (wire)
LBracket == Tok("punct", "[")
RBracket == Tok("punct", "]")
IsPunct(tok, c) == tok.t = "punct" /\ tok.v = c
IsStr(tok, str) == tok.t = "str" /\ tok.v = str

\* Values the clock, time(nullptr), may return.  The sketch never sets the
\* time, so small values (seconds since boot) are as real as epoch seconds.
Timestamps == {0, 10, 1700000000}
VehicleIds == {"abc-123", "xyz-789"}
Phases == {"entry", "exit"}

\* An Event: the four arguments of publishSlotStatus and the clock value.
Event(slotId, vehicleId, phase, occupied, now) ==
  [slot_id |-> slotId, vehicle_id |-> vehicleId, phase |-> phase,
   occupied |-> occupied, timestamp |-> now]
NoEvent == Event("none", "none", "none", FALSE, 0)
NoBuffer == <<>>
Events == {Event(s, v, p, o, t) : s \in SlotIds, v \in VehicleIds, p \in Phases,
                                  o \in BOOLEAN, t \in Timestamps}

\* serializeJson writes an integer as its decimal digits.
RECURSIVE ToDigits(_)
ToDigits(n) == IF n < 10 THEN <<n>> ELSE Append(ToDigits(n \div 10), n % 10)

\* Faulty variant: the vehicle id is written under the key "vehicle_id".
EncodeEvent_RenamesKey(slotId, vehicleId, phase, occupied, now) ==
  << LBracket, LBrace,
       Str("slot_id"), Colon, Str(slotId), Comma,
       Str("vehicle_id"), Colon, Str(vehicleId), Comma,
       Str("phase"), Colon, Str(phase), Comma,
       Str("data"), Colon, LBrace,
         Str("status"), Colon, Str(IF occupied THEN "occupied" ELSE "vacant"), Comma,
         Str("timestamp"), Colon, Num(ToDigits(now)),
       RBrace,
     RBrace, RBracket >>

\* The document publishSlotStatus builds and serialises into buffer: an array
\* of one object with slot_id, vehicleid, phase and data{status, timestamp}.
EncodeEvent(slotId, vehicleId, phase, occupied, now) ==
  << LBracket, LBrace,
       Str("slot_id"), Colon, Str(slotId), Comma,
       Str("vehicleid"), Colon, Str(vehicleId), Comma,
       Str("phase"), Colon, Str(phase), Comma,
       Str("data"), Colon, LBrace,
         Str("status"), Colon, Str(IF occupied THEN "occupied" ELSE "vacant"), Comma,
         Str("timestamp"), Colon, Num(ToDigits(now)),
       RBrace,
     RBrace, RBracket >>

\* A reader of the status topic (not part of the sketch): the wire schema read
\* back.  Decimal digits to the integer they write.
RECURSIVE FromDigits(_)
FromDigits(ds) ==
  IF Len(ds) = 0 THEN 0
  ELSE 10 * FromDigits(SubSeq(ds, 1, Len(ds) - 1)) + ds[Len(ds)]

\* Whether the payload has member key, followed by a value of kind t.
HasMember(toks, key, t) ==
  \E i \in 1..(Len(toks) - 2) :
    IsStr(toks[i], key) /\ IsPunct(toks[i + 1], ":") /\ toks[i + 2].t = t
\* The value of member key.
ValueOf(toks, key) ==
  LET i == CHOOSE i \in 1..(Len(toks) - 2) : IsStr(toks[i], key) /\ IsPunct(toks[i + 1], ":")
  IN toks[i + 2].v

\* The payload is a one-element array whose object has the members of the
\* schema; anything else does not decode.
WellFormedStatus(toks) ==
  /\ Len(toks) >= 4
  /\ IsPunct(toks[1], "[") /\ IsPunct(toks[2], "{")
  /\ IsPunct(toks[Len(toks) - 1], "}") /\ IsPunct(toks[Len(toks)], "]")
  /\ HasMember(toks, "slot_id", "str")
  /\ HasMember(toks, "vehicleid", "str")
  /\ HasMember(toks, "phase", "str")
  /\ HasMember(toks, "data", "punct")
  /\ HasMember(toks, "status", "str")
  /\ ValueOf(toks, "status") \in {"occupied", "vacant"}
  /\ HasMember(toks, "timestamp", "num")

DecodeEvent(toks) ==
  IF WellFormedStatus(toks)
    THEN Event(ValueOf(toks, "slot_id"), ValueOf(toks, "vehicleid"), ValueOf(toks, "phase"),
               ValueOf(toks, "status") = "occupied", FromDigits(ValueOf(toks, "timestamp")))
    ELSE NoEvent

\* Faulty variant: a publisher that keeps what it could not send and transmits
\* the backlog of the slot with the next event it can send.
publishSlotStatus_FlushesBacklog(slotId, vehicleId, phase, occupied) ==
  /\ \E now \in Timestamps :
       /\ event' = Event(slotId, vehicleId, phase, occupied, now)
       /\ buffer' = EncodeEvent(slotId, vehicleId, phase, occupied, now)
  /\ events' = Bump(events, slotId)
  /\ IF connected
       THEN /\ sent' = [sent EXCEPT ![slotId] = @ + 1 + dropped[slotId]]
            /\ dropped' = [dropped EXCEPT ![slotId] = 0]
            /\ lastPublish' = "connected"
       ELSE /\ dropped' = Bump(dropped, slotId)
            /\ UNCHANGED <<sent, lastPublish>>

\* publishSlotStatus: reads the clock, builds and serialises the payload, then
\* hands it to mqttClient.publish if, and only if, mqttClient.connected() holds
\* at that moment; otherwise the event is only logged as not sent.
publishSlotStatus(slotId, vehicleId, phase, occupied) ==
  /\ \E now \in Timestamps :
       /\ event' = Event(slotId, vehicleId, phase, occupied, now)
       /\ buffer' = EncodeEvent(slotId, vehicleId, phase, occupied, now)
  /\ events' = Bump(events, slotId)
  /\ IF connected
       THEN /\ sent' = Bump(sent, slotId)
            /\ lastPublish' = "connected"
            /\ UNCHANGED dropped
       ELSE /\ dropped' = Bump(dropped, slotId)
            /\ UNCHANGED <<sent, lastPublish>>

\* ----------------------------------------------------------------- Init
\* The globals as their initialisers leave them, no session, nothing counted.
Boot ==
  /\ ret = "none"
  /\ entryGateOpen = FALSE
  /\ exitGateOpen = FALSE
  /\ slot1Occupied = FALSE
  /\ slot2Occupied = FALSE
  /\ attached = FALSE
  /\ servoEntry = ServoClosed
  /\ servoExit = ServoClosed
  /\ ledSlot1 = LOW
  /\ ledSlot2 = LOW
  /\ ir = NoReading
  /\ prevIR = NoReading
  /\ servoCmd = NoWrites
  /\ connected = FALSE
  /\ subscribed = FALSE
  /\ trustInstalled = FALSE
  /\ associated = FALSE
  /\ attempts = 0
  /\ events = [s \in SlotIds |-> 0]
  /\ changes = [s \in SlotIds |-> 0]
  /\ sent = [s \in SlotIds |-> 0]
  /\ dropped = [s \in SlotIds |-> 0]
  /\ lastPublish = "none"
  /\ buffer = NoBuffer
  /\ decoded = NoEvent
  /\ slotSensed = FALSE
  /\ rx = NoRx

Init ==
  /\ pc = "setup"
  /\ event = NoEvent
  /\ Boot

\* ---------------------------------------------------------------- setup
\* setup(): SPIFFS.begin fails, setup returns at once and loop() starts with
\* no session, no pin modes and no attached servo.
SetupSpiffsFail ==
  /\ pc = "setup"
  /\ pc' = "loop_check"
  /\ UNCHANGED <<ret, gateVars, slotVars, sensorVars, sessionVars, attempts,
                 telemetryVars, rx>>

\* setup(): SPIFFS mounted, connectAWS() is called.
SetupSpiffsOk ==
  /\ pc = "setup"
  /\ pc' = "wifi_begin"
  /\ ret' = "setup"
  /\ UNCHANGED <<gateVars, slotVars, sensorVars, sessionVars, attempts,
                 telemetryVars, rx>>

\* setup() after connectAWS(): pin modes, both servos attached and driven to 0,
\* both LEDs LOW.
SetupIO ==
  /\ pc = "setup_io"
  /\ attached' = TRUE
  /\ servoEntry' = ServoClosed
  /\ servoExit' = ServoClosed
  /\ ledSlot1' = LOW
  /\ ledSlot2' = LOW
  /\ pc' = "loop_check"
  /\ UNCHANGED <<ret, entryGateOpen, exitGateOpen, servoCmd, slot1Occupied,
                 slot2Occupied, sensorVars, sessionVars, attempts, telemetryVars, rx>>

\* ----------------------------------------------------------- connectAWS
controlVars == <<gateVars, slotVars, sensorVars, telemetryVars, rx>>

Saturate(n) == IF n < MaxAttempts THEN n + 1 ELSE MaxAttempts

\* WiFi.begin(ssid, password)
WifiBegin ==
  /\ pc = "wifi_begin"
  /\ pc' = "wifi_wait"
  /\ attempts' = 0
  /\ associated' = FALSE
  /\ UNCHANGED <<ret, controlVars, connected, subscribed, trustInstalled>>

\* Faulty variant: the WiFi wait loop services the entry gate while it waits.
WifiWaitRetry_ServicesGate ==
  /\ pc = "wifi_wait"
  /\ attempts' = Saturate(attempts)
  /\ entryGateOpen' = TRUE
  /\ servoEntry' = IF attached THEN ServoOpen ELSE servoEntry
  /\ UNCHANGED <<pc, ret, exitGateOpen, attached, servoExit, servoCmd, slotVars,
                 sensorVars, telemetryVars, rx, sessionVars>>

\* Faulty variant: the WiFi wait gives up after MaxAttempts polls and goes on
\* without an association.
WifiWaitRetry_TimesOut ==
  /\ pc = "wifi_wait"
  /\ attempts' = Saturate(attempts)
  /\ pc' = IF attempts >= MaxAttempts THEN "certs" ELSE "wifi_wait"
  /\ UNCHANGED <<ret, controlVars, sessionVars>>

\* while (WiFi.status() != WL_CONNECTED) delay(500): not associated yet.
WifiWaitRetry ==
  /\ pc = "wifi_wait"
  /\ attempts' = Saturate(attempts)
  /\ UNCHANGED <<pc, ret, controlVars, sessionVars>>

\* WiFi.status() == WL_CONNECTED: the loop ends.
WifiWaitDone ==
  /\ pc = "wifi_wait"
  /\ associated' = TRUE
  /\ pc' = "certs"
  /\ UNCHANGED <<ret, attempts, controlVars, connected, subscribed, trustInstalled>>

\* setCACert, setCertificate, setPrivateKey, setServer, setCallback
InstallTrust ==
  /\ pc = "certs"
  /\ trustInstalled' = TRUE
  /\ attempts' = 0
  /\ pc' = "mqtt_loop"
  /\ UNCHANGED <<ret, controlVars, connected, subscribed, associated>>

\* while (!mqttClient.connected()): not connected, the body runs.
MqttLoopRetry ==
  /\ pc = "mqtt_loop"
  /\ ~connected
  /\ pc' = "mqtt_connect"
  /\ UNCHANGED <<ret, attempts, controlVars, sessionVars>>

\* while (!mqttClient.connected()): connected, the loop ends.
MqttLoopExit ==
  /\ pc = "mqtt_loop"
  /\ connected
  /\ pc' = "subscribe"
  /\ UNCHANGED <<ret, attempts, controlVars, sessionVars>>

\* mqttClient.connect(THINGNAME) returns true: a new (clean) session.
MqttConnectOk ==
  /\ pc = "mqtt_connect"
  /\ connected' = TRUE
  /\ subscribed' = FALSE
  /\ pc' = "mqtt_loop"
  /\ UNCHANGED <<ret, attempts, controlVars, trustInstalled, associated>>

\* Faulty variant: a bounded retry that gives up after MaxAttempts failures and
\* goes on to subscribe without a session.
MqttConnectFail_GivesUp ==
  /\ pc = "mqtt_connect"
  /\ attempts' = Saturate(attempts)
  /\ pc' = IF attempts >= MaxAttempts THEN "subscribe" ELSE "mqtt_loop"
  /\ UNCHANGED <<ret, controlVars, sessionVars>>

\* mqttClient.connect(THINGNAME) returns false: delay(1000) and try again.
MqttConnectFail ==
  /\ pc = "mqtt_connect"
  /\ attempts' = Saturate(attempts)
  /\ pc' = "mqtt_loop"
  /\ UNCHANGED <<ret, controlVars, sessionVars>>

\* Faulty variant: the subscription is made by the startup call only.
Subscribe_OnlyAtStartup ==
  /\ pc = "subscribe"
  /\ subscribed' = IF ret = "setup" THEN connected ELSE subscribed
  /\ pc' = IF ret = "setup" THEN "setup_io" ELSE "loop_poll"
  /\ ret' = "none"
  /\ attempts' = 0
  /\ UNCHANGED <<controlVars, connected, trustInstalled, associated>>

\* mqttClient.subscribe(topic), its result ignored, then connectAWS returns to
\* its caller.  subscribe does nothing on a session that is not connected.
Subscribe ==
  /\ pc = "subscribe"
  /\ subscribed' = connected
  /\ pc' = IF ret = "setup" THEN "setup_io" ELSE "loop_poll"
  /\ ret' = "none"
  /\ attempts' = 0
  /\ UNCHANGED <<controlVars, connected, trustInstalled, associated>>

connectAWS ==
  \/ WifiBegin
  \/ WifiWaitRetry
  \/ WifiWaitDone
  \/ InstallTrust
  \/ MqttLoopRetry
  \/ MqttLoopExit
  \/ MqttConnectOk
  \/ MqttConnectFail
  \/ Subscribe

\* ---------------------------------------------------------- environment
\* The broker connection is lost (TCP reset, keep-alive timeout, WiFi loss);
\* the subscription goes with the session.
SessionDrop ==
  /\ connected
  /\ connected' = FALSE
  /\ subscribed' = FALSE
  /\ UNCHANGED <<pc, ret, controlVars, trustInstalled, associated, attempts>>

\* ----------------------------------------------------------------- loop
\* if (!mqttClient.connected()) connectAWS();   -- the session is down
LoopCheckReconnect ==
  /\ pc = "loop_check"
  /\ ~connected
  /\ pc' = "wifi_begin"
  /\ ret' = "loop"
  /\ UNCHANGED <<controlVars, sessionVars, attempts>>

\* if (!mqttClient.connected()) ...             -- the session is up
LoopCheckHealthy ==
  /\ pc = "loop_check"
  /\ connected
  /\ pc' = "loop_poll"
  /\ UNCHANGED <<ret, controlVars, sessionVars, attempts>>

\* mqttClient.loop() with nothing to deliver (or no session to read from).
PollIdle ==
  /\ pc = "loop_poll"
  /\ pc' = "sample"
  /\ UNCHANGED <<ret, controlVars, sessionVars, attempts>>

\* Faulty variant: the handler acts on its command, "unlock" opens the entry gate.
PollDeliver_ActsOnUnlock ==
  /\ pc = "loop_poll"
  /\ connected /\ subscribed
  /\ \E payload \in Payloads :
       /\ rx' = messageHandler(payload)
       /\ IF messageHandler(payload).cmd = CharPtr("unlock")
            THEN entryGateOpen' = TRUE /\ servoEntry' = (IF attached THEN ServoOpen ELSE servoEntry)
            ELSE UNCHANGED <<entryGateOpen, servoEntry>>
  /\ pc' = "sample"
  /\ UNCHANGED <<ret, exitGateOpen, attached, servoExit, servoCmd, slotVars, sensorVars,
                 telemetryVars, sessionVars, attempts>>

\* mqttClient.loop() reads one PUBLISH of the command topic and calls the
\* registered callback, messageHandler, before it returns.
PollDeliver ==
  /\ pc = "loop_poll"
  /\ connected /\ subscribed
  /\ \E payload \in Payloads : rx' = messageHandler(payload)
  /\ pc' = "sample"
  /\ UNCHANGED <<ret, gateVars, slotVars, sensorVars, telemetryVars, sessionVars, attempts>>

\* How many slots a reading of the two slot sensors would toggle.
Toggles(s1, s2) ==
  (IF (s1 = LOW) # slot1Occupied THEN 1 ELSE 0) + (IF (s2 = LOW) # slot2Occupied THEN 1 ELSE 0)

\* The four digitalRead calls: one reading per sensor, any levels.
ReadSensors ==
  /\ pc = "sample"
  /\ \E e \in Level, x \in Level, s1 \in Level, s2 \in Level :
       /\ Total(events) + Toggles(s1, s2) <= MaxEvents
       /\ Total(changes) + Toggles(s1, s2) <= MaxEvents
       /\ ir' = [entry |-> e, exit |-> x, slot1 |-> s1, slot2 |-> s2]
       /\ slotSensed' = (slotSensed \/ s1 = LOW \/ s2 = LOW)
  /\ prevIR' = ir
  /\ servoCmd' = NoWrites
  /\ rx' = NoRx
  /\ pc' = "entry"
  /\ UNCHANGED <<ret, entryGateOpen, exitGateOpen, attached, servoEntry, servoExit,
                 slotVars, telemetryVars, sessionVars, attempts>>

\* Faulty variant: write() never moves the servo.
ServoWrite_Dropped(position, angle) == position

\* Servo::write on a servo that was never attached drives nothing.
ServoWrite(position, angle) == IF attached THEN angle ELSE position

\* Faulty variant: level-triggered, the open command is repeated in every cycle
\* that reads LOW.
EntryGateControl_LevelTriggered ==
  /\ pc = "entry"
  /\ IF ir.entry = LOW
       THEN /\ servoEntry' = ServoWrite(servoEntry, ServoOpen)
            /\ servoCmd' = [servoCmd EXCEPT !.entry = Append(@, ServoOpen)]
            /\ entryGateOpen' = TRUE
       ELSE IF ir.entry = HIGH /\ entryGateOpen
         THEN /\ servoEntry' = ServoWrite(servoEntry, ServoClosed)
              /\ servoCmd' = [servoCmd EXCEPT !.entry = Append(@, ServoClosed)]
              /\ entryGateOpen' = FALSE
         ELSE UNCHANGED <<servoEntry, servoCmd, entryGateOpen>>
  /\ pc' = "exit"
  /\ UNCHANGED <<ret, exitGateOpen, attached, servoExit, slotVars, sensorVars,
                 telemetryVars, sessionVars, attempts, rx>>

\* Faulty variant: opening or closing the entry gate is reported as telemetry.
EntryGateControl_Publishes ==
  /\ pc = "entry"
  /\ IF ir.entry = LOW /\ ~entryGateOpen
       THEN /\ servoEntry' = ServoWrite(servoEntry, ServoOpen)
            /\ servoCmd' = [servoCmd EXCEPT !.entry = Append(@, ServoOpen)]
            /\ entryGateOpen' = TRUE
            /\ publishSlotStatus("slot1", "abc-123", "entry", TRUE)
       ELSE IF ir.entry = HIGH /\ entryGateOpen
         THEN /\ servoEntry' = ServoWrite(servoEntry, ServoClosed)
              /\ servoCmd' = [servoCmd EXCEPT !.entry = Append(@, ServoClosed)]
              /\ entryGateOpen' = FALSE
              /\ publishSlotStatus("slot1", "abc-123", "exit", FALSE)
         ELSE UNCHANGED <<servoEntry, servoCmd, entryGateOpen, events, sent, dropped,
                         lastPublish, event, buffer>>
  /\ pc' = "exit"
  /\ UNCHANGED <<ret, exitGateOpen, attached, servoExit, slotVars, sensorVars,
                 changes, decoded, sessionVars, attempts, rx>>

\* Entry gate control
EntryGateControl ==
  /\ pc = "entry"
  /\ IF ir.entry = LOW /\ ~entryGateOpen
       THEN /\ servoEntry' = ServoWrite(servoEntry, ServoOpen)
            /\ servoCmd' = [servoCmd EXCEPT !.entry = Append(@, ServoOpen)]
            /\ entryGateOpen' = TRUE
       ELSE IF ir.entry = HIGH /\ entryGateOpen
         THEN /\ servoEntry' = ServoWrite(servoEntry, ServoClosed)
              /\ servoCmd' = [servoCmd EXCEPT !.entry = Append(@, ServoClosed)]
              /\ entryGateOpen' = FALSE
         ELSE UNCHANGED <<servoEntry, servoCmd, entryGateOpen>>
  /\ pc' = "exit"
  /\ UNCHANGED <<ret, exitGateOpen, attached, servoExit, slotVars, sensorVars,
                 telemetryVars, sessionVars, attempts, rx>>

\* Faulty variant: the exit gate opens on LOW and is never closed again.
ExitGateControl_NeverCloses ==
  /\ pc = "exit"
  /\ IF ir.exit = LOW /\ ~exitGateOpen
       THEN /\ servoExit' = ServoWrite(servoExit, ServoOpen)
            /\ servoCmd' = [servoCmd EXCEPT !.exit = Append(@, ServoOpen)]
            /\ exitGateOpen' = TRUE
       ELSE IF FALSE
         THEN /\ servoExit' = ServoWrite(servoExit, ServoClosed)
              /\ servoCmd' = [servoCmd EXCEPT !.exit = Append(@, ServoClosed)]
              /\ exitGateOpen' = FALSE
         ELSE UNCHANGED <<servoExit, servoCmd, exitGateOpen>>
  /\ pc' = "slot1"
  /\ UNCHANGED <<ret, entryGateOpen, attached, servoEntry, slotVars, sensorVars,
                 telemetryVars, sessionVars, attempts, rx>>

\* Faulty variant: the exit gate is driven by the entry sensor's reading.
ExitGateControl_ReadsEntrySensor ==
  /\ pc = "exit"
  /\ IF ir.entry = LOW /\ ~exitGateOpen
       THEN /\ servoExit' = ServoWrite(servoExit, ServoOpen)
            /\ servoCmd' = [servoCmd EXCEPT !.exit = Append(@, ServoOpen)]
            /\ exitGateOpen' = TRUE
       ELSE IF ir.entry = HIGH /\ exitGateOpen
         THEN /\ servoExit' = ServoWrite(servoExit, ServoClosed)
              /\ servoCmd' = [servoCmd EXCEPT !.exit = Append(@, ServoClosed)]
              /\ exitGateOpen' = FALSE
         ELSE UNCHANGED <<servoExit, servoCmd, exitGateOpen>>
  /\ pc' = "slot1"
  /\ UNCHANGED <<ret, entryGateOpen, attached, servoEntry, slotVars, sensorVars,
                 telemetryVars, sessionVars, attempts, rx>>

\* Exit gate control
ExitGateControl ==
  /\ pc = "exit"
  /\ IF ir.exit = LOW /\ ~exitGateOpen
       THEN /\ servoExit' = ServoWrite(servoExit, ServoOpen)
            /\ servoCmd' = [servoCmd EXCEPT !.exit = Append(@, ServoOpen)]
            /\ exitGateOpen' = TRUE
       ELSE IF ir.exit = HIGH /\ exitGateOpen
         THEN /\ servoExit' = ServoWrite(servoExit, ServoClosed)
              /\ servoCmd' = [servoCmd EXCEPT !.exit = Append(@, ServoClosed)]
              /\ exitGateOpen' = FALSE
         ELSE UNCHANGED <<servoExit, servoCmd, exitGateOpen>>
  /\ pc' = "slot1"
  /\ UNCHANGED <<ret, entryGateOpen, attached, servoEntry, slotVars, sensorVars,
                 telemetryVars, sessionVars, attempts, rx>>

\* Faulty variant: level-triggered, an "occupied" event in every cycle that
\* reads LOW.
Slot1_LevelTriggered ==
  /\ pc = "slot1"
  /\ IF ir.slot1 = LOW
       THEN /\ ledSlot1' = HIGH
            /\ slot1Occupied' = TRUE
            /\ publishSlotStatus("slot1", "abc-123", "entry", TRUE)
       ELSE IF ir.slot1 = HIGH /\ slot1Occupied
         THEN /\ ledSlot1' = LOW
              /\ slot1Occupied' = FALSE
              /\ publishSlotStatus("slot1", "abc-123", "exit", FALSE)
         ELSE (UNCHANGED <<ledSlot1, slot1Occupied, events, sent, dropped, lastPublish>> /\ event' = NoEvent /\ buffer' = NoBuffer)
  /\ changes' = IF slot1Occupied' # slot1Occupied THEN Bump(changes, "slot1") ELSE changes
  /\ UNCHANGED decoded
  /\ pc' = "slot2"
  /\ UNCHANGED <<ret, gateVars, slot2Occupied, ledSlot2, sensorVars, sessionVars,
                 attempts, rx>>

\* Faulty variant: the slot is tracked only while the session is up.
Slot1_RequiresSession ==
  /\ pc = "slot1"
  /\ IF connected /\ ir.slot1 = LOW /\ ~slot1Occupied
       THEN /\ ledSlot1' = HIGH
            /\ slot1Occupied' = TRUE
            /\ publishSlotStatus("slot1", "abc-123", "entry", TRUE)
       ELSE IF connected /\ ir.slot1 = HIGH /\ slot1Occupied
         THEN /\ ledSlot1' = LOW
              /\ slot1Occupied' = FALSE
              /\ publishSlotStatus("slot1", "abc-123", "exit", FALSE)
         ELSE (UNCHANGED <<ledSlot1, slot1Occupied, events, sent, dropped, lastPublish>> /\ event' = NoEvent /\ buffer' = NoBuffer)
  /\ changes' = IF slot1Occupied' # slot1Occupied THEN Bump(changes, "slot1") ELSE changes
  /\ UNCHANGED decoded
  /\ pc' = "slot2"
  /\ UNCHANGED <<ret, gateVars, slot2Occupied, ledSlot2, sensorVars, sessionVars,
                 attempts, rx>>

\* SLOT 1
Slot1 ==
  /\ pc = "slot1"
  /\ IF ir.slot1 = LOW /\ ~slot1Occupied
       THEN /\ ledSlot1' = HIGH
            /\ slot1Occupied' = TRUE
            /\ publishSlotStatus("slot1", "abc-123", "entry", TRUE)
       ELSE IF ir.slot1 = HIGH /\ slot1Occupied
         THEN /\ ledSlot1' = LOW
              /\ slot1Occupied' = FALSE
              /\ publishSlotStatus("slot1", "abc-123", "exit", FALSE)
         ELSE (UNCHANGED <<ledSlot1, slot1Occupied, events, sent, dropped, lastPublish>> /\ event' = NoEvent /\ buffer' = NoBuffer)
  /\ changes' = IF slot1Occupied' # slot1Occupied THEN Bump(changes, "slot1") ELSE changes
  /\ UNCHANGED decoded
  /\ pc' = "slot2"
  /\ UNCHANGED <<ret, gateVars, slot2Occupied, ledSlot2, sensorVars, sessionVars,
                 attempts, rx>>

\* Faulty variant: slot 2 reads its sensor again instead of using the cycle's
\* snapshot.
Slot2_RereadsSensor ==
  /\ pc = "slot2"
  /\ \E again \in Level :
       IF again = LOW /\ ~slot2Occupied
         THEN /\ ledSlot2' = HIGH
              /\ slot2Occupied' = TRUE
              /\ publishSlotStatus("slot2", "abc-123", "entry", TRUE)
         ELSE IF again = HIGH /\ slot2Occupied
           THEN /\ ledSlot2' = LOW
                /\ slot2Occupied' = FALSE
                /\ publishSlotStatus("slot2", "abc-123", "exit", FALSE)
           ELSE (UNCHANGED <<ledSlot2, slot2Occupied, events, sent, dropped, lastPublish>> /\ event' = NoEvent /\ buffer' = NoBuffer)
  /\ changes' = IF slot2Occupied' # slot2Occupied THEN Bump(changes, "slot2") ELSE changes
  /\ UNCHANGED decoded
  /\ pc' = "delay"
  /\ UNCHANGED <<ret, gateVars, slot1Occupied, ledSlot1, sensorVars, sessionVars,
                 attempts, rx>>

\* Faulty variant: slot 2 reports its arrival with phase "exit" and its
\* departure with phase "entry".
Slot2_SwapsPhase ==
  /\ pc = "slot2"
  /\ IF ir.slot2 = LOW /\ ~slot2Occupied
       THEN /\ ledSlot2' = HIGH
            /\ slot2Occupied' = TRUE
            /\ publishSlotStatus("slot2", "abc-123", "exit", TRUE)
       ELSE IF ir.slot2 = HIGH /\ slot2Occupied
         THEN /\ ledSlot2' = LOW
              /\ slot2Occupied' = FALSE
              /\ publishSlotStatus("slot2", "abc-123", "entry", FALSE)
         ELSE (UNCHANGED <<ledSlot2, slot2Occupied, events, sent, dropped, lastPublish>> /\ event' = NoEvent /\ buffer' = NoBuffer)
  /\ changes' = IF slot2Occupied' # slot2Occupied THEN Bump(changes, "slot2") ELSE changes
  /\ UNCHANGED decoded
  /\ pc' = "delay"
  /\ UNCHANGED <<ret, gateVars, slot1Occupied, ledSlot1, sensorVars, sessionVars,
                 attempts, rx>>

\* Faulty variant: slot 2 reports its vehicles under an identifier of its own.
Slot2_OwnVehicleId ==
  /\ pc = "slot2"
  /\ IF ir.slot2 = LOW /\ ~slot2Occupied
       THEN /\ ledSlot2' = HIGH
            /\ slot2Occupied' = TRUE
            /\ publishSlotStatus("slot2", "xyz-789", "entry", TRUE)
       ELSE IF ir.slot2 = HIGH /\ slot2Occupied
         THEN /\ ledSlot2' = LOW
              /\ slot2Occupied' = FALSE
              /\ publishSlotStatus("slot2", "xyz-789", "exit", FALSE)
         ELSE (UNCHANGED <<ledSlot2, slot2Occupied, events, sent, dropped, lastPublish>> /\ event' = NoEvent /\ buffer' = NoBuffer)
  /\ changes' = IF slot2Occupied' # slot2Occupied THEN Bump(changes, "slot2") ELSE changes
  /\ UNCHANGED decoded
  /\ pc' = "delay"
  /\ UNCHANGED <<ret, gateVars, slot1Occupied, ledSlot1, sensorVars, sessionVars,
                 attempts, rx>>

\* SLOT 2
Slot2 ==
  /\ pc = "slot2"
  /\ IF ir.slot2 = LOW /\ ~slot2Occupied
       THEN /\ ledSlot2' = HIGH
            /\ slot2Occupied' = TRUE
            /\ publishSlotStatus("slot2", "abc-123", "entry", TRUE)
       ELSE IF ir.slot2 = HIGH /\ slot2Occupied
         THEN /\ ledSlot2' = LOW
              /\ slot2Occupied' = FALSE
              /\ publishSlotStatus("slot2", "abc-123", "exit", FALSE)
         ELSE (UNCHANGED <<ledSlot2, slot2Occupied, events, sent, dropped, lastPublish>> /\ event' = NoEvent /\ buffer' = NoBuffer)
  /\ changes' = IF slot2Occupied' # slot2Occupied THEN Bump(changes, "slot2") ELSE changes
  /\ UNCHANGED decoded
  /\ pc' = "delay"
  /\ UNCHANGED <<ret, gateVars, slot1Occupied, ledSlot1, sensorVars, sessionVars,
                 attempts, rx>>

\* delay(200); loop() returns and is called again.
Delay ==
  /\ pc = "delay"
  /\ pc' = "loop_check"
  /\ event' = NoEvent
  /\ buffer' = NoBuffer
  /\ UNCHANGED <<ret, gateVars, slotVars, sensorVars, events, changes, sent, dropped,
                 lastPublish, decoded, rx, sessionVars, attempts>>

setup == SetupSpiffsFail \/ SetupSpiffsOk \/ SetupIO

loop ==
  \/ LoopCheckReconnect
  \/ LoopCheckHealthy
  \/ PollIdle
  \/ PollDeliver
  \/ ReadSensors
  \/ EntryGateControl
  \/ ExitGateControl
  \/ Slot1
  \/ Slot2
  \/ Delay

\* The sketch as it is: setup, connectAWS, loop, and the session dropping.
Program == setup \/ connectAWS \/ loop
Next == Program \/ SessionDrop
Spec == Init /\ [][Next]_vars

\* publishMessage (utils): serialises {"metrics": value} and calls
\* mqttClient.publish with no look at mqttClient.connected().
publishMessage(value) ==
  lastPublish' = IF connected THEN "connected" ELSE "disconnected"

\* The sketch itself never calls publishMessage; utils.h exports it.  This is a
\* call of it from loop(), placed before the closing delay.
CallPublishMessage ==
  /\ pc = "delay"
  /\ \E value \in {0, 1} : publishMessage(value)
  /\ UNCHANGED <<pc, ret, gateVars, slotVars, sensorVars, sessionVars, attempts,
                 events, changes, sent, dropped, event, buffer, decoded, rx>>

\* The sketch together with a caller of the exported publishMessage.
NextAPI == Next \/ CallPublishMessage
SpecAPI == Init /\ [][NextAPI]_vars

\* The retry loops of connectAWS end when the transport lets them: an
\* association that keeps being possible is observed, a connect that keeps being
\* possible succeeds, and a session that keeps coming up is seen up by the loop
\* condition.  The thread of control itself never stops.
Fairness ==
  /\ WF_vars(Program)
  /\ SF_vars(WifiWaitDone)
  /\ SF_vars(MqttConnectOk)
  /\ SF_vars(MqttLoopExit)
FairSpec == Spec /\ Fairness

\* The wire schema on its own: any event, serialised as publishSlotStatus
\* serialises it, then read back from the status topic.
InitWire ==
  /\ pc = "wire_encode"
  /\ event \in Events
  /\ Boot

WireEncode ==
  /\ pc = "wire_encode"
  /\ buffer' = EncodeEvent(event.slot_id, event.vehicle_id, event.phase,
                           event.occupied, event.timestamp)
  /\ pc' = "wire_decode"
  /\ UNCHANGED <<ret, gateVars, slotVars, sensorVars, sessionVars, attempts, events,
                 changes, sent, dropped, lastPublish, event, decoded, rx>>

WireDecode ==
  /\ pc = "wire_decode"
  /\ decoded' = DecodeEvent(buffer)
  /\ pc' = "wire_done"
  /\ UNCHANGED <<ret, gateVars, slotVars, sensorVars, sessionVars, attempts, events,
                 changes, sent, dropped, lastPublish, event, buffer, rx>>

NextWire == WireEncode \/ WireDecode
SpecWire == InitWire /\ [][NextWire]_vars

\* =============================================================== claims

\* C1: a gate toggles, with exactly one servo command, on an active edge
\* (reading LOW while Closed) and on an inactive edge (reading HIGH while Open);
\* a cycle whose reading equals the previous cycle's reading changes no gate
\* state and issues no servo command; a gate changes in its own step only.
GateStepOK(reading, before, open, open2, writes2) ==
  /\ (reading = LOW /\ ~open) => (open2 /\ writes2 = <<ServoOpen>>)
  /\ (reading = HIGH /\ open) => (~open2 /\ writes2 = <<ServoClosed>>)
  /\ (reading = before) => (open2 = open /\ writes2 = <<>>)
  /\ Len(writes2) <= 1
C1_GateEdges ==
  [][ /\ (pc = "entry" /\ pc' = "exit") =>
           GateStepOK(ir.entry, prevIR.entry, entryGateOpen, entryGateOpen', servoCmd'.entry)
      /\ (pc = "exit" /\ pc' = "slot1") =>
           GateStepOK(ir.exit, prevIR.exit, exitGateOpen, exitGateOpen', servoCmd'.exit)
      /\ (entryGateOpen' # entryGateOpen) => pc = "entry"
      /\ (exitGateOpen' # exitGateOpen) => pc = "exit"
      /\ (servoCmd'.entry # <<>> /\ servoCmd'.entry # servoCmd.entry) => pc = "entry"
      /\ (servoCmd'.exit # <<>> /\ servoCmd'.exit # servoCmd.exit) => pc = "exit"
    ]_vars
\* The entry gate was opened by an earlier cycle and this cycle, reading LOW
\* again, left it open without a command.
C1_Witness ==
  /\ pc = "exit"
  /\ prevIR.entry = LOW /\ ir.entry = LOW
  /\ entryGateOpen /\ servoCmd.entry = <<>>

\* C2: for each slot the number of publishSlotStatus calls equals the number of
\* changes of its occupied flag, and a step that leaves the flag unchanged
\* emits no event for the slot.
Occupied(s) == IF s = "slot1" THEN slot1Occupied ELSE slot2Occupied
C2_EventsEqualChanges ==
  /\ [](\A s \in SlotIds : events[s] = changes[s])
  /\ [][ \A s \in SlotIds :
           events'[s] = events[s] + (IF Occupied(s)' # Occupied(s) THEN 1 ELSE 0) ]_vars
\* Slot 1 was occupied and vacated (two events), and the cycle after that read
\* the same level and emitted nothing.
C2_Witness ==
  /\ pc = "delay"
  /\ events["slot1"] = 2 /\ changes["slot1"] = 2
  /\ prevIR.slot1 = HIGH /\ ir.slot1 = HIGH /\ ~slot1Occupied

\* C3: no call reaches mqttClient.publish unless mqttClient.connected() held at
\* the call, whichever operation publishes.
C3_PublishOnlyWhenConnected ==
  lastPublish # "disconnected"

\* C4: once connectAWS is entered it returns, whatever the number of failed
\* tries before, and it leaves its retry loops by success only: the WiFi loop
\* towards the certificates, the MQTT loop after its condition saw the session
\* connected.
C4_ReconnectTerminates ==
  /\ (pc \in ConnectPCs) ~> (pc \notin ConnectPCs)
  /\ [][ /\ (pc = "wifi_wait") => (pc' \in {"wifi_wait", "certs"})
         /\ (pc \in {"mqtt_loop", "mqtt_connect"}) =>
              (pc' \in {"mqtt_loop", "mqtt_connect", "subscribe"})
         /\ (pc' = "subscribe" /\ pc # "subscribe") => (pc = "mqtt_loop" /\ connected)
         /\ (pc \in ConnectPCs /\ pc' \notin ConnectPCs) => pc = "subscribe"
       ]_vars
\* The MQTT loop ended with the session up after the retry counter saturated.
C4_Witness ==
  /\ pc = "subscribe" /\ connected
  /\ attempts = MaxAttempts

\* C5: outside connectAWS an active session always carries the command-topic
\* subscription: every connect is followed by a subscribe before the cycle
\* polls the session.
C5_ActiveSessionSubscribed ==
  (pc \notin ConnectPCs /\ connected) => subscribed
\* The cycle polls a subscribed session that was re-established after an event
\* had been dropped on a lost session.
C5_Witness ==
  /\ pc = "loop_poll"
  /\ connected /\ subscribed
  /\ Total(dropped) > 0

\* C6: every step taken while connectAWS is in progress leaves the sensor
\* readings, gate and slot states, servo and LED outputs and the telemetry
\* counters as they are.
C6_ReconnectBlocksControl ==
  [][ (pc \in ConnectPCs) => (controlVars' = controlVars) ]_vars
\* connectAWS, entered from loop() with a gate open and a slot occupied, is
\* retrying.
C6_Witness ==
  /\ pc = "mqtt_connect" /\ ret = "loop"
  /\ attempts = MaxAttempts
  /\ entryGateOpen /\ slot1Occupied

\* C7: a cycle runs health check (reconnect if down), poll, one sampling, entry
\* gate, exit gate, slot 1, slot 2, delay, in that order; the readings change in
\* the sampling step only, every gate and slot change equals what the cycle's
\* snapshot says, the callback runs in the poll step only, and events are
\* emitted in the slot steps only.
C7_CycleOrder ==
  [][ /\ (pc = "loop_check" /\ pc' # pc) =>
           \/ (connected /\ pc' = "loop_poll")
           \/ (~connected /\ pc' = "wifi_begin" /\ ret' = "loop")
      /\ (pc = "subscribe" /\ ret = "loop" /\ pc' # pc) => pc' = "loop_poll"
      /\ (pc = "loop_poll" /\ pc' # pc) => pc' = "sample"
      /\ (pc = "sample" /\ pc' # pc) => pc' = "entry"
      /\ (pc = "entry" /\ pc' # pc) => pc' = "exit"
      /\ (pc = "exit" /\ pc' # pc) => pc' = "slot1"
      /\ (pc = "slot1" /\ pc' # pc) => pc' = "slot2"
      /\ (pc = "slot2" /\ pc' # pc) => pc' = "delay"
      /\ (pc = "delay" /\ pc' # pc) => pc' = "loop_check"
      /\ (ir' # ir) => (pc = "sample" /\ pc' = "entry")
      /\ (rx'.got /\ rx' # rx) => (pc = "loop_poll" /\ pc' = "sample")
      /\ (entryGateOpen' # entryGateOpen) => (ir' = ir /\ entryGateOpen' = (ir.entry = LOW))
      /\ (exitGateOpen' # exitGateOpen) => (ir' = ir /\ exitGateOpen' = (ir.exit = LOW))
      /\ (slot1Occupied' # slot1Occupied) => (ir' = ir /\ slot1Occupied' = (ir.slot1 = LOW))
      /\ (slot2Occupied' # slot2Occupied) => (ir' = ir /\ slot2Occupied' = (ir.slot2 = LOW))
      /\ (events' # events) => pc \in {"slot1", "slot2"}
    ]_vars
\* One snapshot, all four sensors newly active, moved both gates and both slots
\* in one cycle.
C7_Witness ==
  /\ pc = "delay"
  /\ prevIR = [entry |-> HIGH, exit |-> HIGH, slot1 |-> HIGH, slot2 |-> HIGH]
  /\ ir = [entry |-> LOW, exit |-> LOW, slot1 |-> LOW, slot2 |-> LOW]
  /\ entryGateOpen /\ exitGateOpen /\ slot1Occupied /\ slot2Occupied
  /\ events = [s \in SlotIds |-> 1]

\* C8: a delivered payload reaches the command branch with its "message"
\* string if it decodes to an object with a string "message" member, and is
\* discarded, the branch not reached, in every other case.
HasStringMessage(payload) ==
  LET doc == deserializeJson(payload) IN
  doc.err = "Ok" /\ ~MemberAsCharPtr(doc.val, "message").isNull
C8_DispatchOnlyStringMessage ==
  rx.got =>
    IF HasStringMessage(rx.payload)
      THEN rx.dispatched /\ rx.cmd = MemberAsCharPtr(deserializeJson(rx.payload).val, "message")
      ELSE ~rx.dispatched

\* C9: every event is handed to mqttClient.publish once or not at all; a
\* publish happens only in the step that created its event, so an event that
\* was dropped is never transmitted afterwards.
C9_AtMostOnce ==
  /\ [](\A s \in SlotIds : sent[s] + dropped[s] = events[s])
  /\ [][ \A s \in SlotIds :
           /\ (sent'[s] # sent[s]) =>
                (sent'[s] = sent[s] + 1 /\ events'[s] = events[s] + 1 /\ dropped'[s] = dropped[s])
           /\ dropped'[s] >= dropped[s]
       ]_vars
\* Slot 1's event was dropped in an earlier cycle; the session is up again, a
\* later cycle has run its slot steps, and nothing was transmitted.
C9_Witness ==
  /\ pc = "delay"
  /\ connected /\ subscribed
  /\ events["slot1"] = 1 /\ dropped["slot1"] = 1 /\ sent["slot1"] = 0
  /\ prevIR.slot1 = LOW /\ ir.slot1 = LOW

\* C10: the gate and slot steps do what the snapshot and the stored state say,
\* whatever the session's state: same state change, same servo command, same
\* LED level, one event emitted per slot change; with the session down only the
\* transmission is missing, and the cycle goes on to its next step.
GateOutcome(reading, open, position) ==
  IF reading = LOW /\ ~open THEN <<TRUE, ServoWrite(position, ServoOpen)>>
  ELSE IF reading = HIGH /\ open THEN <<FALSE, ServoWrite(position, ServoClosed)>>
  ELSE <<open, position>>
SlotOutcome(reading, occupied, led) ==
  IF reading = LOW /\ ~occupied THEN <<TRUE, HIGH>>
  ELSE IF reading = HIGH /\ occupied THEN <<FALSE, LOW>>
  ELSE <<occupied, led>>
C10_LocalControlIndependent ==
  /\ [](pc \in {"sample", "entry", "exit", "slot1", "slot2", "delay"} => ENABLED loop)
  /\ [][ /\ (pc = "entry" /\ pc' # pc) =>
              <<entryGateOpen', servoEntry'>> = GateOutcome(ir.entry, entryGateOpen, servoEntry)
         /\ (pc = "exit" /\ pc' # pc) =>
              <<exitGateOpen', servoExit'>> = GateOutcome(ir.exit, exitGateOpen, servoExit)
         /\ (pc = "slot1" /\ pc' # pc) =>
              /\ <<slot1Occupied', ledSlot1'>> = SlotOutcome(ir.slot1, slot1Occupied, ledSlot1)
              /\ events'["slot1"] = events["slot1"] + (IF slot1Occupied' # slot1Occupied THEN 1 ELSE 0)
              /\ ~connected => sent' = sent
              /\ pc' = "slot2"
         /\ (pc = "slot2" /\ pc' # pc) =>
              /\ <<slot2Occupied', ledSlot2'>> = SlotOutcome(ir.slot2, slot2Occupied, ledSlot2)
              /\ events'["slot2"] = events["slot2"] + (IF slot2Occupied' # slot2Occupied THEN 1 ELSE 0)
              /\ ~connected => sent' = sent
              /\ pc' = "delay"
       ]_vars
\* With the session down, slot 1 became occupied, its LED went HIGH, its event
\* was dropped, and the cycle is at its next step.
C10_Witness ==
  /\ pc = "slot2"
  /\ ~connected
  /\ prevIR.slot1 = HIGH /\ ir.slot1 = LOW
  /\ slot1Occupied /\ ledSlot1 = HIGH
  /\ dropped["slot1"] = 1 /\ sent["slot1"] = 0

\* What a transition of slot s from was to is must have emitted: the Event ev
\* and its payload buf name the slot, and phase, occupied and status agree
\* with the direction of the transition.
EmittedFor(s, was, is, ev, buf) ==
  /\ (~was /\ is) =>
       /\ ev.slot_id = s /\ ev.phase = "entry" /\ ev.occupied
       /\ ValueOf(buf, "slot_id") = s
       /\ ValueOf(buf, "phase") = "entry"
       /\ ValueOf(buf, "status") = "occupied"
  /\ (was /\ ~is) =>
       /\ ev.slot_id = s /\ ev.phase = "exit" /\ ~ev.occupied
       /\ ValueOf(buf, "slot_id") = s
       /\ ValueOf(buf, "phase") = "exit"
       /\ ValueOf(buf, "status") = "vacant"

\* C11: every emitted Event agrees with the transition that caused it.  A slot
\* going Vacant -> Occupied emits slot_id of that slot, phase "entry", occupied
\* true, status "occupied"; Occupied -> Vacant emits phase "exit", occupied
\* false, status "vacant"; no Event pairs "entry" with false or "exit" with
\* true.
C11_EventMatchesTransition ==
  /\ [](event # NoEvent =>
          /\ event.slot_id \in SlotIds
          /\ event.phase \in Phases
          /\ (event.phase = "entry") <=> event.occupied
          /\ ValueOf(buffer, "status") = (IF event.occupied THEN "occupied" ELSE "vacant"))
  /\ [][\A s \in SlotIds : EmittedFor(s, Occupied(s), Occupied(s)', event', buffer')]_vars
\* Slot 2 was occupied and has just been vacated: its second Event is the
\* exit Event.
C11_Witness ==
  /\ pc = "delay"
  /\ events["slot2"] = 2
  /\ ~slot2Occupied
  /\ event = Event("slot2", "abc-123", "exit", FALSE, event.timestamp)
  /\ ValueOf(buffer, "status") = "vacant"

\* C12: gate transitions emit no telemetry.  As long as neither slot sensor has
\* read active, the gates open and close as their readings dictate, no Event
\* has been emitted and the transport has been asked to publish nothing; and no
\* gate step ever changes the telemetry.
C12_GatesEmitNothing ==
  /\ [](~slotSensed =>
          /\ Total(events) = 0 /\ Total(sent) = 0 /\ Total(dropped) = 0
          /\ lastPublish = "none"
          /\ event = NoEvent /\ buffer = NoBuffer
          /\ pc \in {"slot1", "slot2", "delay"} =>
               /\ entryGateOpen = (ir.entry = LOW)
               /\ exitGateOpen = (ir.exit = LOW))
  /\ [][(pc = "entry" \/ pc = "exit") =>
         (UNCHANGED <<events, sent, dropped, lastPublish, event, buffer>>)]_vars
\* In this cycle the entry gate closed and the exit gate opened, with the
\* session up and no slot sensor ever active: nothing was emitted.
C12_Witness ==
  /\ ~slotSensed
  /\ pc = "delay"
  /\ connected
  /\ prevIR.entry = LOW /\ ir.entry = HIGH
  /\ prevIR.exit = HIGH /\ ir.exit = LOW
  /\ ~entryGateOpen /\ exitGateOpen
  /\ servoCmd.entry = <<ServoClosed>>
  /\ servoCmd.exit = <<ServoOpen>>
  /\ Total(events) = 0 /\ Total(sent) = 0

\* C13: round trip of the wire schema.  For every Event over the bounded sets
\* of slot_id, vehicle_id, phase, occupied and timestamp, decoding the encoded
\* payload gives back an equal Event.
C13_WireRoundTrip ==
  pc = "wire_done" =>
    /\ buffer = EncodeEvent(event.slot_id, event.vehicle_id, event.phase,
                            event.occupied, event.timestamp)
    /\ decoded = event
\* The example Event of the schema, with an epoch timestamp, went through
\* encode and decode.
C13_Witness ==
  /\ pc = "wire_done"
  /\ event = Event("slot1", "abc-123", "entry", TRUE, 1700000000)
  /\ Len(buffer) = 27
  /\ decoded = event

\* C14: every Event the controller emits carries the fixed vehicle_id
\* "abc-123", in the Event and in its payload.
C14_FixedVehicleId ==
  event # NoEvent =>
    /\ event.vehicle_id = "abc-123"
    /\ ValueOf(buffer, "vehicleid") = "abc-123"
\* Both slots emitted in one cycle; the last Event is slot 2's.
C14_Witness ==
  /\ pc = "delay"
  /\ events["slot1"] = 1 /\ events["slot2"] = 1
  /\ event.slot_id = "slot2"
  /\ event.vehicle_id = "abc-123"

\* C15: protocol order inside reconnect.  Connect is attempted only once the
\* network association has been observed and the trust material installed;
\* subscribe is reached only after a connect succeeded; and the control cycle
\* never sees an active session without the association having succeeded.
C15_ReconnectOrder ==
  /\ [](pc \in {"mqtt_loop", "mqtt_connect", "subscribe"} => associated /\ trustInstalled)
  /\ []((pc \notin ConnectPCs /\ connected) => associated /\ trustInstalled)
  /\ [][ /\ (connected' /\ ~connected) => (pc = "mqtt_connect" /\ associated /\ trustInstalled)
         /\ (pc' = "subscribe" /\ pc # "subscribe") => connected
         /\ (subscribed' /\ ~subscribed) => (pc = "subscribe" /\ associated /\ trustInstalled)
       ]_vars
\* A reconnect from the control cycle, after failed connect attempts, is about
\* to subscribe over an associated, trusted, connected session.
C15_Witness ==
  /\ pc = "subscribe"
  /\ ret = "loop"
  /\ attempts >= 1
  /\ associated /\ trustInstalled /\ connected
  /\ ~subscribed

\* C16: level-state correspondence.  At the end of every control cycle each
\* gate is Open iff its snapshot reading is LOW and each slot is Occupied iff
\* its snapshot reading is LOW.
C16_StateFollowsReading ==
  (ir # NoReading /\ pc \notin {"entry", "exit", "slot1", "slot2"}) =>
    /\ entryGateOpen = (ir.entry = LOW)
    /\ exitGateOpen = (ir.exit = LOW)
    /\ slot1Occupied = (ir.slot1 = LOW)
    /\ slot2Occupied = (ir.slot2 = LOW)
\* End of a cycle in which the exit gate closed and slot 1 became occupied,
\* while the entry gate stayed open and slot 2 stayed vacant.
C16_Witness ==
  /\ pc = "delay"
  /\ prevIR = [entry |-> LOW, exit |-> LOW, slot1 |-> HIGH, slot2 |-> HIGH]
  /\ ir = [entry |-> LOW, exit |-> HIGH, slot1 |-> LOW, slot2 |-> HIGH]
  /\ entryGateOpen /\ ~exitGateOpen /\ slot1Occupied /\ ~slot2Occupied

\* C17: output-state correspondence.  Once setup has completed (the servos are
\* attached), and so at the end of every control cycle, a servo stands at 90
\* iff its gate is Open and an LED is HIGH iff its slot is Occupied.
C17_OutputFollowsState ==
  attached =>
    /\ (servoEntry = ServoOpen) <=> entryGateOpen
    /\ (servoEntry = ServoClosed) <=> ~entryGateOpen
    /\ (servoExit = ServoOpen) <=> exitGateOpen
    /\ (servoExit = ServoClosed) <=> ~exitGateOpen
    /\ (ledSlot1 = HIGH) <=> slot1Occupied
    /\ (ledSlot2 = HIGH) <=> slot2Occupied
\* End of a cycle with the entry gate open at 90, the exit gate closed again
\* at 0, slot 1 occupied and lit, slot 2 vacant and dark.
C17_Witness ==
  /\ attached
  /\ pc = "delay"
  /\ entryGateOpen /\ servoEntry = ServoOpen
  /\ ~exitGateOpen /\ servoExit = ServoClosed /\ servoCmd.exit = <<ServoClosed>>
  /\ slot1Occupied /\ ledSlot1 = HIGH
  /\ ~slot2Occupied /\ ledSlot2 = LOW

\* This step wrote a command to the servo of gate g.
Commanded(g) == servoCmd'[g] # servoCmd[g] /\ servoCmd'[g] # <<>>

\* C18: frame.  The four state machines are independent: a gate's state, servo
\* position and servo commands, and a slot's state, LED and event count, change
\* only in that component's own step and only if its own reading differs from
\* the one of the cycle before.
C18_ComponentsIndependent ==
  [][ /\ (<<entryGateOpen, servoEntry>>' # <<entryGateOpen, servoEntry>> \/ Commanded("entry")) =>
           (pc = "entry" /\ ir.entry # prevIR.entry)
      /\ (<<exitGateOpen, servoExit>>' # <<exitGateOpen, servoExit>> \/ Commanded("exit")) =>
           (pc = "exit" /\ ir.exit # prevIR.exit)
      /\ (<<slot1Occupied, ledSlot1, events["slot1"]>>' # <<slot1Occupied, ledSlot1, events["slot1"]>>) =>
           (pc = "slot1" /\ ir.slot1 # prevIR.slot1)
      /\ (<<slot2Occupied, ledSlot2, events["slot2"]>>' # <<slot2Occupied, ledSlot2, events["slot2"]>>) =>
           (pc = "slot2" /\ ir.slot2 # prevIR.slot2)
    ]_vars
\* Only the entry sensor changed in this cycle, and only the entry gate moved,
\* while the exit gate stayed open and slot 1 stayed occupied.
C18_Witness ==
  /\ pc = "delay"
  /\ prevIR = [entry |-> HIGH, exit |-> LOW, slot1 |-> LOW, slot2 |-> HIGH]
  /\ ir = [entry |-> LOW, exit |-> LOW, slot1 |-> LOW, slot2 |-> HIGH]
  /\ entryGateOpen /\ servoCmd.entry = <<ServoOpen>>
  /\ exitGateOpen /\ servoCmd.exit = <<>>
  /\ slot1Occupied /\ events["slot1"] = 1
  /\ ~slot2Occupied /\ events["slot2"] = 0

\* C19: frame.  An inbound command, whatever its payload, leaves gate and slot
\* state, the outputs and the session state unchanged and causes no publish.
C19_CommandChangesNothing ==
  [][(pc = "loop_poll" /\ rx'.got) =>
       (UNCHANGED <<gateVars, slotVars, sessionVars, telemetryVars>>)]_vars
\* The command "unlock" was received and dispatched while the entry gate was
\* closed and slot 1 occupied: the gate is still closed.
C19_Witness ==
  /\ pc = "sample"
  /\ rx.got /\ rx.cmd = CharPtr("unlock")
  /\ attached
  /\ ~entryGateOpen /\ servoEntry = ServoClosed
  /\ slot1Occupied

====
